---- MODULE Spec2Model ----
(***************************************************************************)
(* Model of server.js of reddit2reels-backend: the caption builder         *)
(* (makeSrtFromText), the renderer (renderVideo with getFontFile and       *)
(* supportsDrawtext) and the POST /api/generate handler.                   *)
(*                                                                         *)
(* JavaScript numbers are IEEE-754 doubles.  A non-negative double is      *)
(* modelled exactly as [m |-> bits, e |-> exponent], value m * 2^e, with   *)
(* m a big-endian sequence of 53 bits whose first bit is 1 (<<>> for 0),   *)
(* and every arithmetic result is rounded to nearest, ties to even.        *)
(* Strings are sequences of one-character strings.                         *)
(***************************************************************************)
EXTENDS Integers, Sequences, FiniteSets, TLC

(* ------------------------------ bounds --------------------------------- *)
MaxTextLen == 3
MaxDur == 7
MaxTitleLen == 3

(* --------------------------- IEEE-754 doubles -------------------------- *)
MantBits == 53

Zeros(n) == [i \in 1..n |-> 0]

Ones(b) == {i \in 1..Len(b) : b[i] = 1}

Highest(S) == CHOOSE i \in S : \A j \in S : j <= i

Lowest(S) == CHOOSE i \in S : \A j \in S : i <= j

StripLead(b) ==
  IF Ones(b) = {} THEN <<>> ELSE SubSeq(b, Lowest(Ones(b)), Len(b))

TrailZeros(b) == IF Ones(b) = {} THEN Len(b) ELSE Len(b) - Highest(Ones(b))

RECURSIVE NatBits(_)
NatBits(n) == IF n = 0 THEN <<>> ELSE Append(NatBits(n \div 2), n % 2)

RECURSIVE BitsNat(_)
BitsNat(b) ==
  IF b = <<>> THEN 0 ELSE 2 * BitsNat(SubSeq(b, 1, Len(b) - 1)) + b[Len(b)]

RECURSIVE Pow2(_)
Pow2(n) == IF n = 0 THEN 1 ELSE 2 * Pow2(n - 1)

(* the bits of n, left-padded with zeros to width w *)
NatBitsW(n, w) == LET b == NatBits(n) IN Zeros(w - Len(b)) \o b

(* bignum addition, Chunk bits at a time from the low end *)
Chunk == 24

LowBits(b, w) == IF Len(b) <= w THEN b ELSE SubSeq(b, Len(b) - w + 1, Len(b))

HighBits(b, w) == IF Len(b) <= w THEN <<>> ELSE SubSeq(b, 1, Len(b) - w)

RECURSIVE AddCarry(_, _, _)
AddCarry(a, b, carry) ==
  IF a = <<>> /\ b = <<>>
  THEN IF carry = 1 THEN <<1>> ELSE <<>>
  ELSE LET s == BitsNat(LowBits(a, Chunk)) + BitsNat(LowBits(b, Chunk)) + carry
           c == IF s >= Pow2(Chunk) THEN 1 ELSE 0
       IN  IF c = 1
           THEN AddCarry(HighBits(a, Chunk), HighBits(b, Chunk), 1)
                  \o NatBitsW(s - Pow2(Chunk), Chunk)
           ELSE AddCarry(HighBits(a, Chunk), HighBits(b, Chunk), 0)
                  \o NatBitsW(s, Chunk)

AddBits(a, b) == StripLead(AddCarry(a, b, 0))

(* bignum product a * b, halving b *)
RECURSIVE MulBits(_, _)
MulBits(a, b) ==
  IF a = <<>> \/ b = <<>> THEN <<>>
  ELSE IF Len(b) = 1 THEN (IF b[1] = 1 THEN StripLead(a) ELSE <<>>)
  ELSE LET h  == Len(b) \div 2
           hi == MulBits(a, SubSeq(b, 1, Len(b) - h))
           lo == MulBits(a, SubSeq(b, Len(b) - h + 1, Len(b)))
       IN  AddBits(IF hi = <<>> THEN <<>> ELSE hi \o Zeros(h), lo)

FZero == [m |-> <<>>, e |-> 0]

(* b has no leading zero; the exact value is b * 2^e, plus a positive      *)
(* amount below one unit of b's last place when sticky holds.              *)
RoundBits(b, e, sticky) ==
  IF b = <<>> THEN FZero
  ELSE IF Len(b) <= MantBits
  THEN [m |-> b \o Zeros(MantBits - Len(b)), e |-> e - (MantBits - Len(b))]
  ELSE LET keep  == SubSeq(b, 1, MantBits)
           guard == b[MantBits + 1]
           rest  == sticky \/ (\E i \in (MantBits + 2)..Len(b) : b[i] = 1)
           up    == guard = 1 /\ (rest \/ keep[MantBits] = 1)
           inc   == IF up THEN AddBits(keep, <<1>>) ELSE keep
           e1    == e + (Len(b) - MantBits)
       IN  IF Len(inc) > MantBits
           THEN [m |-> SubSeq(inc, 1, MantBits), e |-> e1 + 1]
           ELSE [m |-> inc, e |-> e1]

FromInt(n) == RoundBits(NatBits(n), 0, FALSE)

(* the double n / d of two small positive integers: DivDigits digits of *)
(* DivDigitBits bits of the quotient, the remainder as the sticky part   *)
DivDigitBits == 8
DivDigits == 8

RECURSIVE DivFrom(_, _, _)
DivFrom(r, d, k) ==
  IF k = 0 THEN <<<<>>, r>>
  ELSE LET r2  == r * Pow2(DivDigitBits)
           rec == DivFrom(r2 % d, d, k - 1)
       IN  <<NatBitsW(r2 \div d, DivDigitBits) \o rec[1], rec[2]>>

FDivInt(n, d) ==
  LET frac == DivFrom(n % d, d, DivDigits)
      bits == StripLead(NatBits(n \div d) \o frac[1])
  IN  RoundBits(bits, 0 - DivDigitBits * DivDigits, frac[2] # 0)

FMul(x, y) ==
  IF x.m = <<>> \/ y.m = <<>> THEN FZero
  ELSE LET tx == TrailZeros(x.m)
           ty == TrailZeros(y.m)
           a  == SubSeq(x.m, 1, Len(x.m) - tx)
           b  == SubSeq(y.m, 1, Len(y.m) - ty)
           p  == IF Len(a) <= Len(b) THEN MulBits(b, a) ELSE MulBits(a, b)
       IN  RoundBits(p, x.e + tx + y.e + ty, FALSE)

FAdd(x, y) ==
  IF x.m = <<>> THEN y
  ELSE IF y.m = <<>> THEN x
  ELSE LET e == IF x.e < y.e THEN x.e ELSE y.e
           a == x.m \o Zeros(x.e - e)
           b == y.m \o Zeros(y.e - e)
       IN  RoundBits(AddBits(a, b), e, FALSE)

BitsLess(a, b) ==
  \E i \in 1..Len(a) : a[i] < b[i] /\ \A j \in 1..(i - 1) : a[j] = b[j]

FLess(x, y) ==
  IF y.m = <<>> THEN FALSE
  ELSE IF x.m = <<>> THEN TRUE
  ELSE IF x.e # y.e THEN x.e < y.e
  ELSE BitsLess(x.m, y.m)

FLeq(x, y) == ~FLess(y, x)
FMax(x, y) == IF FLess(x, y) THEN y ELSE x
FMin(x, y) == IF FLess(y, x) THEN y ELSE x

(* Math.floor of a non-negative double *)
FFloor(x) ==
  IF x.m = <<>> THEN 0
  ELSE IF x.e >= 0 THEN BitsNat(x.m) * Pow2(x.e)
  ELSE IF 0 - x.e >= Len(x.m) THEN 0
  ELSE BitsNat(SubSeq(x.m, 1, Len(x.m) + x.e))

(* ------------------------------ strings -------------------------------- *)
(* The characters the inputs are drawn from: an ordinary letter, a space,  *)
(* a line break, a sentence-final mark and an opening mark.                *)
TextChars == {"a", " ", "\n", ".", "¡"}
TitleChars == {"a", ":", "\\", "'"}

SeqsUpTo(S, n) == UNION {[1..k -> S] : k \in 0..n}

Texts == SeqsUpTo(TextChars, MaxTextLen)
Titles == SeqsUpTo(TitleChars, MaxTitleLen)

Whitespace == {" ", "\n"}

(* String.prototype.trim *)
Trim(s) ==
  LET keep == {i \in 1..Len(s) : s[i] \notin Whitespace}
  IN  IF keep = {} THEN <<>> ELSE SubSeq(s, Lowest(keep), Highest(keep))

(* text.replace(/\n+/g, " ") *)
RECURSIVE ReplaceNewlines(_)
ReplaceNewlines(t) ==
  IF t = <<>> THEN <<>>
  ELSE IF t[1] # "\n" THEN <<t[1]>> \o ReplaceNewlines(Tail(t))
  ELSE LET rest == {i \in 1..Len(t) : t[i] # "\n"}
       IN  IF rest = {} THEN <<" ">>
           ELSE <<" ">> \o ReplaceNewlines(SubSeq(t, Lowest(rest), Len(t)))

(* the character classes of /[^.!?\u3002¡¿]+[.!?\u3002]?/g; the ideographic  *)
(* full stop is written "U+3002"                                       *)
Excluded == {".", "!", "?", "U+3002", "¡", "¿"}
Terminators == {".", "!", "?", "U+3002"}

(* String.prototype.match with the global flag: every match, left to   *)
(* right, each starting at the first position after the previous one   *)
RECURSIVE MatchAll(_, _)
MatchAll(t, from) ==
  LET starts == {i \in from..Len(t) : t[i] \notin Excluded}
  IN  IF starts = {} THEN <<>>
      ELSE LET b     == Lowest(starts)
               stops == {i \in b..Len(t) : t[i] \in Excluded}
               e     == IF stops = {} THEN Len(t) ELSE Lowest(stops) - 1
               last  == IF e < Len(t) /\ t[e + 1] \in Terminators
                        THEN e + 1 ELSE e
           IN  <<SubSeq(t, b, last)>> \o MatchAll(t, last + 1)

(* const sentences = text.replace(...).match(...) || [text] *)
Sentences(text) ==
  LET found == MatchAll(ReplaceNewlines(text), 1)
  IN  IF found = <<>> THEN <<text>> ELSE found

RECURSIVE SumLen(_)
SumLen(ss) == IF ss = <<>> THEN 0 ELSE Len(ss[1]) + SumLen(Tail(ss))

(* sentences.reduce((a, s) => a + s.length, 0) || 1 *)
TotalCharsPlusOne(ss) == SumLen(ss) + 1
TotalChars(ss) == IF SumLen(ss) = 0 THEN 1 ELSE SumLen(ss)

(* ------------------------------ captions ------------------------------- *)
DigitChars == <<"0", "1", "2", "3", "4", "5", "6", "7", "8", "9">>

RECURSIVE Digits(_)
Digits(n) ==
  IF n < 10 THEN <<DigitChars[n + 1]>>
  ELSE Append(Digits(n \div 10), DigitChars[(n % 10) + 1])

(* String(n).padStart(w, "0") *)
PadStart(n, w) ==
  LET d == Digits(n)
  IN  IF Len(d) >= w THEN d ELSE [i \in 1..(w - Len(d)) |-> "0"] \o d

Thousand == FromInt(1000)

ToMillis(sec) == FFloor(FMul(sec, Thousand))

toTimestamp(sec) ==
  LET ms == ToMillis(sec)
  IN  PadStart(ms \div 3600000, 2) \o <<":">>
        \o PadStart((ms % 3600000) \div 60000, 2) \o <<":">>
        \o PadStart((ms % 60000) \div 1000, 2) \o <<",">>
        \o PadStart(ms % 1000, 3)

(* the literal 1.2 *)
MinCueSec == FDivInt(6, 5)

(* const dur = Math.max(1.2, audioDurationSec * portion) *)
CueDurNoFloor(dur, len, total) == FMul(dur, FDivInt(len, total))
CueDur(dur, len, total) == FMax(MinCueSec, FMul(dur, FDivInt(len, total)))

(* const end = Math.min(audioDurationSec, cursor + dur) *)
CueEndNoClamp(dur, cursor, d) == FAdd(cursor, d)
CueEnd(dur, cursor, d) == FMin(dur, FAdd(cursor, d))

(* the forEach loop: one cue per sentence, cursor carried along *)
RECURSIVE CuesFrom(_, _, _, _, _)
CuesFrom(ss, idx, cursor, dur, total) ==
  IF idx > Len(ss) THEN <<>>
  ELSE LET end == CueEnd(dur, cursor, CueDur(dur, Len(ss[idx]), total))
       IN  <<[index |-> idx, start |-> cursor, end |-> end,
              sentence |-> ss[idx], text |-> Trim(ss[idx])]>>
             \o CuesFrom(ss, idx + 1, end, dur, total)

Cues(text, dur) ==
  LET ss == Sentences(text) IN CuesFrom(ss, 1, FZero, dur, TotalChars(ss))

(* one element of lines: `${idx}\n${start} --> ${end}\n${text}\n` *)
SrtLine(c) ==
  [index |-> Digits(c.index), from |-> toTimestamp(c.start),
   to |-> toTimestamp(c.end), text |-> c.text]

(* the content handed to fs.writeFileSync: the lines in order *)
SrtContent(cs) == [i \in 1..Len(cs) |-> SrtLine(cs[i])]

(* ------------------------------- renderer ------------------------------ *)
bgMap ==
  [gaming   |-> "assets/bg/gaming.mp4",
   abstract |-> "assets/bg/abstract.mp4",
   city     |-> "assets/bg/city.mp4",
   nature   |-> "assets/bg/nature.mp4"]

(* property names every object literal inherits from Object.prototype *)
ObjectPrototypeKeys ==
  {"constructor", "toString", "toLocaleString", "valueOf", "hasOwnProperty",
   "isPrototypeOf", "propertyIsEnumerable", "__proto__"}

(* the value of an inherited property: truthy, and not a path *)
NotAPath == "[object]"

(* String(bgKey || "").toLowerCase(), on the selectors of the model; ""   *)
(* stands for an absent selector                                          *)
ToLowerCase(k) == IF k \in {"Solid", "SOLID"} THEN "solid" ELSE k

WantsSolid(bgKey) == ToLowerCase(bgKey) = "solid"

(* bgMap[bgKey] || bgMap["abstract"] *)
Requested(bgKey) ==
  IF bgKey \in DOMAIN bgMap THEN bgMap[bgKey]
  ELSE IF bgKey \in ObjectPrototypeKeys THEN NotAPath
  ELSE bgMap["abstract"]

(* fs.existsSync: false for anything that is not the path of a file *)
ExistsSync(p, files) == p # NotAPath /\ p \in files

Usable(bgKey, files) ==
  IF WantsSolid(bgKey) THEN FALSE ELSE ExistsSync(Requested(bgKey), files)

tryPaths == <<"Inter-Regular.ttf", "Roboto-Regular.ttf", "Arial.ttf">>

NoFont == "null"

getFontFile(files) ==
  LET found == {i \in 1..Len(tryPaths) : tryPaths[i] \in files}
  IN  IF found = {} THEN NoFont ELSE tryPaths[Lowest(found)]

(* hasDraw = fontFile ? await supportsDrawtext() : false *)
ProbesAlways(fontFile) == TRUE
Probes(fontFile) == fontFile # NoFont

(* s.replace(/c/g, repl) for a single character c *)
RECURSIVE ReplaceAll(_, _, _)
ReplaceAll(s, c, repl) ==
  IF s = <<>> THEN <<>>
  ELSE (IF s[1] = c THEN repl ELSE <<s[1]>>) \o ReplaceAll(Tail(s), c, repl)

DefaultTitle == <<"RedditToReels">>

TitleRaw(t) == IF t = <<>> THEN DefaultTitle ELSE t

TitleSafeBackslashLast(t) ==
  ReplaceAll(ReplaceAll(ReplaceAll(TitleRaw(t), ":", <<"\\", ":">>),
                        "'", <<"\\", "'">>),
             "\\", <<"\\", "\\">>)

TitleSafe(t) ==
  ReplaceAll(ReplaceAll(ReplaceAll(TitleRaw(t), "\\", <<"\\", "\\">>),
                        ":", <<"\\", ":">>),
             "'", <<"\\", "'">>)

(* path.join(__dirname, "assets", "fonts", name) *)
Dirnames == {<<"/", "app">>, <<"C", ":", "\\", "app">>}

Sep(dir) == IF dir[1] = "/" THEN "/" ELSE "\\"

FontPath(dir, name) == dir \o <<Sep(dir), "assets", Sep(dir), "fonts", Sep(dir), name>>

(* fontFile.replace(/\\/g, "/").replace(/:/g, "\\:") *)
FontPosix(path) == ReplaceAll(ReplaceAll(path, "\\", <<"/">>), ":", <<"\\", ":">>)

Base == "[0:v]scale=1080:1920,setsar=1,format=yuv420p"
DrawBox == ",drawbox=x=80:y=100:w=920:h=160:color=black@0.4:t=filled"
DrawTextOpen == ",drawtext=fontfile="
TextOpen == ":text='"
TextClose == "':fontcolor=white:fontsize=52:"
DrawTextTail == "x=(w-text_w)/2:y=130:shadowx=2:shadowy=2"

Overlay(dir, fontFile, hasDraw, t) ==
  IF fontFile # NoFont /\ hasDraw
  THEN <<DrawBox, DrawTextOpen>> \o FontPosix(FontPath(dir, fontFile))
         \o <<TextOpen>> \o TitleSafe(t) \o <<TextClose, DrawTextTail>>
  ELSE <<>>

Filter(dir, fontFile, hasDraw, t) ==
  <<Base>> \o Overlay(dir, fontFile, hasDraw, t) \o <<"[v]">>

SolidInput == "color=c=0x0a0f1f:s=1080x1920:r=30"

(* the first input of the ffmpeg command *)
VideoInput(bgKey, files) ==
  IF Usable(bgKey, files) THEN Requested(bgKey) ELSE SolidInput

NoPlan == [input |-> "", filter |-> <<>>]

(* --------------------------- POST /api/generate ------------------------ *)
Req == {"r1", "r2"}

VARIABLES
  body,       (* the request each client sends; mode "none": no request   *)
  reddit,     (* the document Reddit returns for the request's redditUrl  *)
  audioLen,   (* seconds of audio ffprobe reports for the request's voice *)
  assets,     (* the font and background files present on disk            *)
  dirname,    (* __dirname                                                *)
  pc,         (* the await each handler invocation is suspended at        *)
  title,      (* the handler's let title                                  *)
  bodyText,   (* the handler's let bodyText                               *)
  id,         (* the handler's const id, 0 before uuidv4() is called      *)
  cues,       (* start, end and text of every cue makeSrtFromText pushed  *)
  captions,   (* the content written to captions.srt                      *)
  render,     (* renderVideo's fontFile, hasDraw and its probe's progress *)
  plan,       (* the input and the filter graph given to ffmpeg           *)
  files,      (* the paths that exist under outputs/ and the probe file   *)
  touched,    (* every path a run created, wrote or deleted, with the run *)
  started,    (* the stages each run has started, in order                *)
  response    (* the responses sent for each request, in order            *)

vars == <<body, reddit, audioLen, assets, dirname, pc, title, bodyText, id,
          cues, captions, render, plan, files, touched, started, response>>

env == <<body, reddit, audioLen, assets, dirname>>

DefaultStoryTitle == <<"RedditToReels">>
RedditStory == <<"Reddit Story">>

(* fetchRedditText, from the parsed document or from the catch branch *)
fetchRedditText(doc) ==
  IF ~doc.ok THEN [title |-> RedditStory, script |-> <<>>]
  ELSE LET t == IF doc.title = <<>> THEN RedditStory ELSE doc.title
           c == IF doc.selftext # <<>> THEN doc.selftext
                ELSE IF doc.comment # <<>> THEN doc.comment
                ELSE t
       IN  [title |-> t, script |-> Trim(c)]

(* the truth value of bodyText?.trim() *)
HasTextUntrimmed(b) == b # <<>>
HasText(b) == Trim(b) # <<>>

WorkDir(i) == [dir |-> i, file |-> ""]
OutFile(i, name) == [dir |-> i, file |-> name]
probeOut == [dir |-> 0, file |-> ".__probe_ignore.mp4"]

(* uuidv4(): an identifier no earlier call returned *)
NewId == Cardinality({q \in Req : id[q] # 0}) + 1

BadRequest == [status |-> 400, error |-> "No hay texto para narrar.", urls |-> {}]

InternalErrorWithUrls(i) ==
  [status |-> 500, error |-> "e.message",
   urls |-> {OutFile(i, "video.mp4"), OutFile(i, "captions.srt"), OutFile(i, "voice.mp3")}]
InternalError(i) == [status |-> 500, error |-> "e.message", urls |-> {}]

Generated(i) ==
  [status |-> 200, error |-> "",
   urls |-> {OutFile(i, "video.mp4"), OutFile(i, "captions.srt"), OutFile(i, "voice.mp3")}]

StageOrder == <<"synthesis", "duration", "captions", "composition">>

NoRender == [fontFile |-> NoFont, probed |-> FALSE, wrote |-> FALSE, hasDraw |-> FALSE]

(* the catch block: res.status(500).json(...) *)
FailAndRetry(r) ==
  /\ response' = [response EXCEPT ![r] = Append(@, InternalError(id[r]))]
  /\ pc' = pc

Fail(r) ==
  /\ response' = [response EXCEPT ![r] = Append(@, InternalError(id[r]))]
  /\ pc' = [pc EXCEPT ![r] = "done"]

(* lines 241-245: the text check, then uuidv4() and the mkdir call *)
CheckText(r, t, b) ==
  /\ title' = [title EXCEPT ![r] = t]
  /\ bodyText' = [bodyText EXCEPT ![r] = b]
  /\ IF HasText(b)
     THEN /\ id' = [id EXCEPT ![r] = NewId]
          /\ pc' = [pc EXCEPT ![r] = "mkdir"]
          /\ UNCHANGED response
     ELSE /\ response' = [response EXCEPT ![r] = Append(@, BadRequest)]
          /\ pc' = [pc EXCEPT ![r] = "done"]
          /\ UNCHANGED id

(* the request arrives: lines 231-235, and on to the first await *)
Receive(r) ==
  /\ pc[r] = "idle"
  /\ body[r].mode # "none"
  /\ LET t == IF body[r].storyTitle = <<>> THEN DefaultStoryTitle
              ELSE body[r].storyTitle
         b == body[r].script
     IN  IF body[r].mode = "url"
         THEN /\ title' = [title EXCEPT ![r] = t]
              /\ bodyText' = [bodyText EXCEPT ![r] = b]
              /\ pc' = [pc EXCEPT ![r] = "fetch"]
              /\ UNCHANGED <<id, response>>
         ELSE CheckText(r, t, b)
  /\ UNCHANGED <<env, cues, captions, render, plan, files, touched, started>>

(* fetchRedditText settles: lines 236-239, then the text check *)
FetchDone(r) ==
  /\ pc[r] = "fetch"
  /\ LET got == fetchRedditText(reddit[r])
         t   == IF got.title = <<>> THEN title[r] ELSE got.title
         b   == IF bodyText[r] = <<>> THEN got.script ELSE bodyText[r]
     IN  CheckText(r, t, b)
  /\ UNCHANGED <<env, cues, captions, render, plan, files, touched, started>>

(* mkdir settles; on success ttsPolly is called *)
MkdirDone(r) ==
  /\ pc[r] = "mkdir"
  /\ \E ok \in BOOLEAN :
       IF ok
       THEN /\ files' = files \cup {WorkDir(id[r])}
            /\ touched' = touched \cup {[req |-> r, path |-> WorkDir(id[r])]}
            /\ started' = [started EXCEPT ![r] = Append(@, "synthesis")]
            /\ pc' = [pc EXCEPT ![r] = "tts"]
            /\ UNCHANGED response
       ELSE /\ Fail(r)
            /\ UNCHANGED <<files, touched, started>>
  /\ UNCHANGED <<env, title, bodyText, id, cues, captions, render, plan>>

(* ttsPolly settles: the Polly call fails, or the stream to voice.mp3    *)
(* fails after the file was opened, or the file is complete and          *)
(* getAudioDurationSec is called                                         *)
TtsDone(r) ==
  /\ pc[r] = "tts"
  /\ \E outcome \in {"ok", "sendError", "streamError"} :
       /\ IF outcome = "sendError"
          THEN UNCHANGED <<files, touched>>
          ELSE /\ files' = files \cup {OutFile(id[r], "voice.mp3")}
               /\ touched' = touched \cup
                    {[req |-> r, path |-> OutFile(id[r], "voice.mp3")]}
       /\ IF outcome = "ok"
          THEN /\ started' = [started EXCEPT ![r] = Append(@, "duration")]
               /\ pc' = [pc EXCEPT ![r] = "ffprobe"]
               /\ UNCHANGED response
          ELSE /\ Fail(r)
               /\ UNCHANGED started
  /\ UNCHANGED <<env, title, bodyText, id, cues, captions, render, plan>>

(* renderVideo up to the ffmpeg command: lines 188-221 *)
Compose(r, font, hasDraw) ==
  plan' = [plan EXCEPT ![r] =
             [input  |-> VideoInput(body[r].background, assets),
              filter |-> Filter(dirname, font, hasDraw, title[r])]]

(* ffprobe settles: makeSrtFromText runs and writes captions.srt, then   *)
(* renderVideo runs up to its first await, the overlay probe when a font *)
(* was found and the ffmpeg command otherwise                            *)
DurationDone(r) ==
  /\ pc[r] = "ffprobe"
  /\ \E outcome \in {"ok", "probeError", "writeError"} :
       IF outcome = "probeError"
       THEN /\ Fail(r)
            /\ UNCHANGED <<cues, captions, render, plan, files, touched, started>>
       ELSE LET cs == Cues(bodyText[r], FromInt(audioLen[r]))
            IN  /\ cues' = [cues EXCEPT ![r] = cs]
                /\ IF outcome = "writeError"
                   THEN /\ started' = [started EXCEPT ![r] = Append(@, "captions")]
                        /\ Fail(r)
                        /\ UNCHANGED <<captions, render, plan, files, touched>>
                   ELSE LET font == getFontFile(assets)
                        IN  /\ captions' = [captions EXCEPT ![r] = SrtContent(cs)]
                            /\ files' = files \cup {OutFile(id[r], "captions.srt")}
                            /\ touched' = touched \cup
                                 {[req |-> r, path |-> OutFile(id[r], "captions.srt")]}
                            /\ started' = [started EXCEPT ![r] =
                                             @ \o <<"captions", "composition">>]
                            /\ UNCHANGED response
                            /\ IF Probes(font)
                               THEN /\ render' = [render EXCEPT ![r] =
                                         [fontFile |-> font, probed |-> TRUE,
                                          wrote |-> FALSE, hasDraw |-> FALSE]]
                                    /\ pc' = [pc EXCEPT ![r] = "probe"]
                                    /\ UNCHANGED plan
                               ELSE /\ render' = [render EXCEPT ![r] =
                                         [fontFile |-> font, probed |-> FALSE,
                                          wrote |-> FALSE, hasDraw |-> FALSE]]
                                    /\ pc' = [pc EXCEPT ![r] = "ffmpeg"]
                                    /\ Compose(r, font, FALSE)
  /\ UNCHANGED <<env, title, bodyText, id>>

(* the probe's ffmpeg process writes its output file *)
ProbeWrite(r) ==
  /\ pc[r] = "probe"
  /\ ~render[r].wrote
  /\ render' = [render EXCEPT ![r].wrote = TRUE]
  /\ files' = files \cup {probeOut}
  /\ touched' = touched \cup {[req |-> r, path |-> probeOut]}
  /\ UNCHANGED <<env, pc, title, bodyText, id, cues, captions, plan, started, response>>

(* the probe ends or errors: supportsDrawtext unlinks the file when it   *)
(* is there and returns ok; renderVideo goes on to the ffmpeg command    *)
ProbeDone(r) ==
  /\ pc[r] = "probe"
  /\ \E ok \in BOOLEAN :
       /\ render' = [render EXCEPT ![r].hasDraw = ok]
       /\ Compose(r, render[r].fontFile, ok)
  /\ IF probeOut \in files
     THEN /\ files' = files \ {probeOut}
          /\ touched' = touched \cup {[req |-> r, path |-> probeOut]}
     ELSE UNCHANGED <<files, touched>>
  /\ pc' = [pc EXCEPT ![r] = "ffmpeg"]
  /\ UNCHANGED <<env, title, bodyText, id, cues, captions, started, response>>

(* the ffmpeg command ends, and the handler answers with the locations,  *)
(* or errors, possibly leaving a partial video.mp4                       *)
ComposeDone(r) ==
  /\ pc[r] = "ffmpeg"
  /\ \E outcome \in {"end", "error", "errorPartial"} :
       /\ IF outcome = "error"
          THEN UNCHANGED <<files, touched>>
          ELSE /\ files' = files \cup {OutFile(id[r], "video.mp4")}
               /\ touched' = touched \cup
                    {[req |-> r, path |-> OutFile(id[r], "video.mp4")]}
       /\ IF outcome = "end"
          THEN /\ response' = [response EXCEPT ![r] = Append(@, Generated(id[r]))]
               /\ pc' = [pc EXCEPT ![r] = "done"]
          ELSE Fail(r)
  /\ UNCHANGED <<env, title, bodyText, id, cues, captions, render, plan, started>>

Next ==
  \E r \in Req :
    \/ Receive(r)
    \/ FetchDone(r)
    \/ MkdirDone(r)
    \/ TtsDone(r)
    \/ DurationDone(r)
    \/ ProbeWrite(r)
    \/ ProbeDone(r)
    \/ ComposeDone(r)

(* ---------------------------- specifications -------------------------- *)
NoRequest == [mode |-> "none", storyTitle |-> <<>>, script |-> <<>>, background |-> ""]
NoDoc == [ok |-> FALSE, title |-> <<>>, selftext |-> <<>>, comment |-> <<>>]
PostDoc == [ok |-> TRUE, title |-> <<"a", ":">>, selftext |-> <<"a", ".", "a">>,
            comment |-> <<"a">>]

Idle ==
  /\ pc = [r \in Req |-> "idle"]
  /\ title = [r \in Req |-> <<>>]
  /\ bodyText = [r \in Req |-> <<>>]
  /\ id = [r \in Req |-> 0]
  /\ cues = [r \in Req |-> <<>>]
  /\ captions = [r \in Req |-> <<>>]
  /\ render = [r \in Req |-> NoRender]
  /\ plan = [r \in Req |-> NoPlan]
  /\ files = {}
  /\ touched = {}
  /\ started = [r \in Req |-> <<>>]
  /\ response = [r \in Req |-> <<>>]

Posix == <<"/", "app">>

(* two clients post concurrently; narration is blank, given, or fetched *)
Arrivals ==
  {<<[mode |-> "text", storyTitle |-> <<>>, script |-> <<" ">>, background |-> "solid"], NoDoc>>,
   <<[mode |-> "text", storyTitle |-> <<"a">>, script |-> <<"a">>, background |-> "gaming"], NoDoc>>,
   <<[mode |-> "url", storyTitle |-> <<>>, script |-> <<>>, background |-> "solid"], NoDoc>>,
   <<[mode |-> "url", storyTitle |-> <<>>, script |-> <<>>, background |-> "solid"], PostDoc>>}

Init ==
  /\ \E a \in [Req -> Arrivals] :
       /\ body = [r \in Req |-> a[r][1]]
       /\ reddit = [r \in Req |-> a[r][2]]
  /\ audioLen = [r \in Req |-> 1]
  /\ assets \in {{}, {"Arial.ttf", bgMap["gaming"]}}
  /\ dirname = Posix
  /\ Idle

Spec == Init /\ [][Next]_vars

(* one client; the narration text and the audio length range widely *)
InitSrt ==
  /\ \E t \in Texts :
       \/ /\ body = [r \in Req |-> IF r = "r1"
                       THEN [mode |-> "text", storyTitle |-> <<>>, script |-> t,
                             background |-> "solid"]
                       ELSE NoRequest]
          /\ reddit = [r \in Req |-> NoDoc]
       \/ /\ t = <<>>
          /\ body = [r \in Req |-> IF r = "r1"
                       THEN [mode |-> "url", storyTitle |-> <<>>, script |-> <<>>,
                             background |-> "solid"]
                       ELSE NoRequest]
          /\ reddit = [r \in Req |-> IF r = "r1" THEN PostDoc ELSE NoDoc]
  /\ \E d \in 0..MaxDur : audioLen = [r \in Req |-> IF r = "r1" THEN d ELSE 0]
  /\ assets = {"Arial.ttf"}
  /\ dirname = Posix
  /\ Idle

SpecSrt == InitSrt /\ [][Next]_vars

(* one client; the title, the background selector, the files present    *)
(* and the install directory range widely                               *)
Selectors == {"", "solid", "Solid", "gaming", "abstract", "unknown", "constructor"}

AssetSets ==
  {f \cup b : f \in {{}, {"Arial.ttf"}, {"Inter-Regular.ttf", "Arial.ttf"}},
              b \in SUBSET {bgMap["abstract"], bgMap["gaming"]}}

InitRender ==
  /\ \E k \in Selectors :
       \/ \E t \in Titles :
            /\ body = [r \in Req |-> IF r = "r1"
                         THEN [mode |-> "text", storyTitle |-> t, script |-> <<"a">>,
                               background |-> k]
                         ELSE NoRequest]
            /\ reddit = [r \in Req |-> NoDoc]
       \/ /\ k = "solid"
          /\ body = [r \in Req |-> IF r = "r1"
                       THEN [mode |-> "url", storyTitle |-> <<>>, script |-> <<>>,
                             background |-> k]
                       ELSE NoRequest]
          /\ reddit = [r \in Req |-> IF r = "r1" THEN PostDoc ELSE NoDoc]
  /\ audioLen = [r \in Req |-> 1]
  /\ assets \in AssetSets
  /\ dirname \in Dirnames
  /\ Idle

SpecRender == InitRender /\ [][Next]_vars

(* ------------------------------ properties ----------------------------- *)
Has(seq, x) == \E i \in 1..Len(seq) : seq[i] = x

(* makeSrtFromText has run for r *)
CaptionsBuilt(r) == Has(started[r], "captions")

(* renderVideo has handed its command to ffmpeg for r *)
Planned(r) == plan[r] # NoPlan

AudioDuration(r) == FromInt(audioLen[r])

LastCue(r) == cues[r][Len(cues[r])]

(* C1: with a duration D > 0, makeSrtFromText emits one cue per sentence,   *)
(* numbered 1..N in order; the first cue starts at 0, no cue starts after   *)
(* its end, each cue ends where the next starts, the last ends by D.        *)
CueTrackShape ==
  \A r \in Req :
    (CaptionsBuilt(r) /\ audioLen[r] > 0) =>
      LET cs == cues[r]
          ss == Sentences(bodyText[r])
      IN  /\ Len(cs) = Len(ss)
          /\ \A i \in 1..Len(cs) :
               /\ cs[i].index = i
               /\ cs[i].sentence = ss[i]
               /\ FLeq(cs[i].start, cs[i].end)
               /\ i < Len(cs) => cs[i].end = cs[i + 1].start
          /\ cs[1].start = FZero
          /\ FLeq(cs[Len(cs)].end, AudioDuration(r))

CueTrackShapeWitness ==
  \E r \in Req :
    /\ CaptionsBuilt(r) /\ audioLen[r] > 0
    /\ Len(cues[r]) >= 2
    /\ FLess(cues[r][1].end, AudioDuration(r))
    /\ LastCue(r).end = AudioDuration(r)

(* C2, as stated: every cue lasts at least min(1.2, D) seconds, D > 0.      *)
EveryCueLastsMinimum ==
  \A r \in Req :
    (CaptionsBuilt(r) /\ audioLen[r] > 0) =>
      \A i \in 1..Len(cues[r]) :
        FLeq(FAdd(cues[r][i].start, FMin(MinCueSec, AudioDuration(r))),
             cues[r][i].end)

(* C2, amended: with D > 0 every cue either ends exactly at D or ends no    *)
(* earlier than its start plus 1.2 seconds.                                 *)
CueLastsMinimumOrReachesEnd ==
  \A r \in Req :
    (CaptionsBuilt(r) /\ audioLen[r] > 0) =>
      \A i \in 1..Len(cues[r]) :
        \/ cues[r][i].end = AudioDuration(r)
        \/ FLeq(FAdd(cues[r][i].start, MinCueSec), cues[r][i].end)

ZeroWidthCueWitness ==
  \E r \in Req :
    /\ CaptionsBuilt(r) /\ audioLen[r] > 0
    /\ \E i \in 1..Len(cues[r]) :
         /\ cues[r][i].start = cues[r][i].end
         /\ cues[r][i].end = AudioDuration(r)

(* C3: for a non-empty text the segmentation returns at least one sentence  *)
(* and the sentences, concatenated in order, are the text with its line     *)
(* breaks turned into spaces: no character is dropped.                      *)
RECURSIVE ConcatSentences(_)
ConcatSentences(cs) ==
  IF cs = <<>> THEN <<>> ELSE cs[1].sentence \o ConcatSentences(Tail(cs))

SegmentationKeepsText ==
  \A r \in Req :
    (CaptionsBuilt(r) /\ bodyText[r] # <<>>) =>
      /\ Len(cues[r]) >= 1
      /\ ConcatSentences(cues[r]) = ReplaceNewlines(bodyText[r])

(* C10, as stated: for a non-empty text and D >= 0 the last cue ends        *)
(* exactly at D.                                                            *)
LastCueEndsAtDuration ==
  \A r \in Req :
    (CaptionsBuilt(r) /\ bodyText[r] # <<>>) =>
      LastCue(r).end = AudioDuration(r)

(* C10, amended: for a non-empty text and D >= 0 the last cue never ends    *)
(* after D; its end, floored to milliseconds as in the written timestamp,   *)
(* is at most one millisecond below D's; a text segmented into a single     *)
(* sentence, as every text without the marks . ! ? U+3002 and the opening   *)
(* marks is, gives exactly one cue, from 0 to exactly D.                    *)
LastCueEndsWithinRounding ==
  \A r \in Req :
    (CaptionsBuilt(r) /\ bodyText[r] # <<>>) =>
      /\ FLeq(LastCue(r).end, AudioDuration(r))
      /\ ToMillis(AudioDuration(r)) - ToMillis(LastCue(r).end) <= 1
      /\ Len(cues[r]) = 1 =>
           (cues[r][1].start = FZero /\ LastCue(r).end = AudioDuration(r))
      /\ (\A i \in 1..Len(bodyText[r]) : bodyText[r][i] \notin Excluded) =>
           Len(cues[r]) = 1

LastCueShortWitness ==
  \E r \in Req :
    /\ CaptionsBuilt(r) /\ bodyText[r] # <<>>
    /\ Len(cues[r]) >= 2
    /\ FLess(LastCue(r).end, AudioDuration(r))
    /\ captions[r] # <<>>

(* C4: synthesis, duration measurement, caption building and composition   *)
(* are started in that order and at most once each per request; a request   *)
(* that failed has one response, an error without artifact locations, and   *)
(* starts no further stage; after a failed synthesis neither captions.srt   *)
(* nor video.mp4 of the request is ever written.                            *)
Failed(r) == response[r] # <<>> /\ response[r][1].status = 500

SynthesisFailed(r) == Failed(r) /\ started[r] = <<"synthesis">>

StagesInOrderNoRetry ==
  /\ [](\A r \in Req :
          /\ Len(started[r]) <= Len(StageOrder)
          /\ started[r] = SubSeq(StageOrder, 1, Len(started[r]))
          /\ Len(response[r]) <= 1
          /\ Failed(r) => (pc[r] = "done" /\ response[r][1].urls = {})
          /\ SynthesisFailed(r) =>
               /\ OutFile(id[r], "captions.srt") \notin files
               /\ OutFile(id[r], "video.mp4") \notin files)
  /\ [][\A r \in Req :
          Failed(r) => /\ started'[r] = started[r]
                       /\ response'[r] = response[r]
                       /\ pc'[r] = pc[r]]_vars

SynthesisFailedWitness ==
  \E r \in Req : SynthesisFailed(r) /\ OutFile(id[r], "voice.mp3") \in files

(* C5: no path that one run creates, writes or deletes is created, written  *)
(* or deleted by another run.                                               *)
RunsShareNoPath ==
  \A t1 \in touched : \A t2 \in touched : t1.path = t2.path => t1.req = t2.req

(* C6: selector "solid" always gives the generated solid-color source; a    *)
(* selector that is not a known key resolves to the abstract asset, which   *)
(* is the source when its file exists; whenever the resolved asset's file   *)
(* is missing the solid-color source is used.                               *)
ResolvedAsset(k) == IF k \in DOMAIN bgMap THEN bgMap[k] ELSE bgMap["abstract"]

BackgroundSelection ==
  \A r \in Req :
    Planned(r) =>
      LET k == body[r].background
      IN  /\ k = "solid" => plan[r].input = SolidInput
          /\ (k \notin DOMAIN bgMap /\ ToLowerCase(k) # "solid"
                /\ bgMap["abstract"] \in assets)
               => plan[r].input = bgMap["abstract"]
          /\ ResolvedAsset(k) \notin assets => plan[r].input = SolidInput

(* C7: when none of the candidate font files exists, no font is found, the  *)
(* overlay probe is never started, and the filter graph has neither the     *)
(* title box nor the title text.                                            *)
NoFontNoProbeNoOverlay ==
  \A r \in Req :
    (\A i \in 1..Len(tryPaths) : tryPaths[i] \notin assets) =>
      /\ pc[r] # "probe"
      /\ ~render[r].probed /\ ~render[r].wrote
      /\ render[r].fontFile = NoFont
      /\ probeOut \notin files
      /\ Planned(r) => plan[r].filter = <<Base, "[v]">>

NoFontWitness ==
  \E r \in Req :
    /\ \A i \in 1..Len(tryPaths) : tryPaths[i] \notin assets
    /\ Planned(r)
    /\ response[r] # <<>> /\ response[r][1].status = 200

(* C8: with the overlay enabled, the title text in the filter graph has     *)
(* every colon, backslash and single quote of the title escaped by a        *)
(* backslash of its own: read left to right, a backslash always takes the   *)
(* next character with it, no colon or quote stands alone, and what is      *)
(* read is the title; the graph has one opening and one closing of the      *)
(* text option.                                                             *)
RECURSIVE EscapedOnly(_)
EscapedOnly(s) ==
  IF s = <<>> THEN TRUE
  ELSE IF s[1] = "\\" THEN Len(s) >= 2 /\ EscapedOnly(SubSeq(s, 3, Len(s)))
  ELSE s[1] \notin {":", "'"} /\ EscapedOnly(Tail(s))

RECURSIVE Unescaped(_)
Unescaped(s) ==
  IF s = <<>> THEN <<>>
  ELSE IF s[1] = "\\" /\ Len(s) >= 2 THEN <<s[2]>> \o Unescaped(SubSeq(s, 3, Len(s)))
  ELSE <<s[1]>> \o Unescaped(Tail(s))

Positions(seq, x) == {i \in 1..Len(seq) : seq[i] = x}

TitleText(f) ==
  SubSeq(f, Lowest(Positions(f, TextOpen)) + 1, Lowest(Positions(f, TextClose)) - 1)

OverlayOn(r) == Planned(r) /\ Has(plan[r].filter, DrawTextOpen)

BlankTextRejected ==
  \A r \in Req :
    (pc[r] \notin {"idle", "fetch"} /\ Trim(bodyText[r]) = <<>>) =>
      /\ pc[r] = "done"
      /\ response[r] = <<BadRequest>>
      /\ response[r][1].status = 400
      /\ \A i \in 0..Cardinality(Req) : response[r][1] # InternalError(i)
      /\ id[r] = 0
      /\ started[r] = <<>>
      /\ \A t \in touched : t.req # r

BlankTextWitness ==
  \E r \in Req :
    /\ response[r] = <<BadRequest>>
    /\ bodyText[r] # <<>>
    /\ \E q \in Req : q # r /\ started[q] # <<>>

====
